---------------------------- MODULE Spec2Model ----------------------------
(***************************************************************************)
(* A model of monitor_legistar.py: the Legistar -> Notion policy monitor.  *)
(*                                                                         *)
(* Python strings are sequences of one-character strings, so that          *)
(* lower(), `in`, startswith(), isdigit() and int() are computed and not   *)
(* assumed.  JSON values are tagged records: JNull, JInt(n), JStr(s),      *)
(* JBool(b).  A JSON object is a function whose DOMAIN is the set of keys  *)
(* that are present.                                                       *)
(***************************************************************************)
EXTENDS Integers, Sequences, FiniteSets, TLC

VARIABLES
    matters,          \* the list GET /matters answers with (the same in every run)
    run,              \* number of the current invocation of run_monitor
    pc,               \* "start", "loop", "done", "aborted"; "idle" outside run_monitor
    i,                \* 1-based position of the for loop in matters
    seen_matter_ids,  \* run_monitor's local set
    item,             \* run_monitor's local item: the record last assembled
    created,          \* the destination's rows: matter ids of the accepted creates
    posts,            \* this run's POSTs to the destination, in order: [id, ok]
    historyCalls,     \* this run's GET .../history calls, in order: [id, status_code]
    sponsorCalls,     \* this run's GET .../sponsors calls, in order: [id, status_code]
    printed,          \* whether this run printed its completion message
    last,             \* what the last loop iteration did and was answered
    call,             \* a helper under test: [fn, args]
    result            \* what that helper returned or raised

vars == << matters, run, pc, i, seen_matter_ids, item, created, posts,
           historyCalls, sponsorCalls, printed, last, call, result >>

-----------------------------------------------------------------------------
(* Bounds of the model. *)

\* longest fetched matter list
MaxMatters == 2
\* invocations of run_monitor
MaxRuns == 2
\* fragments concatenated into a text given to match_keywords
MaxFragments == 2
\* entries of a sponsor list given to fetch_sponsors
MaxSponsors == 3
\* fragments concatenated into the inner part of a legacy /Date(...)/ value
MaxDateParts == 2

-----------------------------------------------------------------------------
(* Python values. *)

JNull == [isnull |-> TRUE]
JInt(n) == [int |-> n]
JStr(s) == [str |-> s]
JBool(b) == [bool |-> b]

IsNull(v) == DOMAIN v = {"isnull"}
IsInt(v) == DOMAIN v = {"int"}
IsStr(v) == DOMAIN v = {"str"}
IsBool(v) == DOMAIN v = {"bool"}

\* Python truthiness: None, "", 0 and False are falsy.
Truthy(v) ==
    IF IsNull(v) THEN FALSE
    ELSE IF IsStr(v) THEN v.str # <<>>
    ELSE IF IsInt(v) THEN v.int # 0
    ELSE v.bool

\* dict.get(key, default)
Get(m, key, default) == IF key \in DOMAIN m THEN m[key] ELSE default

\* a or b
Or(a, b) == IF Truthy(a) THEN a ELSE b

UpperChars == <<"A", "B", "C", "D", "E", "F", "G", "H", "I", "J", "K", "L", "M", "N", "O", "P", "Q", "R", "S", "T", "U", "V", "W", "X", "Y", "Z">>
LowerChars == <<"a", "b", "c", "d", "e", "f", "g", "h", "i", "j", "k", "l", "m", "n", "o", "p", "q", "r", "s", "t", "u", "v", "w", "x", "y", "z">>
DigitChars == <<"0", "1", "2", "3", "4", "5", "6", "7", "8", "9">>

Range(s) == {s[k] : k \in 1..Len(s)}

IndexOf(s, c) == CHOOSE k \in 1..Len(s) : s[k] = c

Digits == Range(DigitChars)

\* the lower-case letter of each upper-case letter
ToLower == [c \in Range(UpperChars) |-> LowerChars[IndexOf(UpperChars, c)]]

\* str.lower(), on ASCII text
lower(s) == [k \in 1..Len(s) |-> IF s[k] \in DOMAIN ToLower THEN ToLower[s[k]] ELSE s[k]]

\* w in text
Contains(text, w) ==
    \E p \in 1..(Len(text) - Len(w) + 1) : SubSeq(text, p, p + Len(w) - 1) = w

\* text.startswith(w), text.endswith(w)
startswith(text, w) == Len(text) >= Len(w) /\ SubSeq(text, 1, Len(w)) = w
endswith(text, w) ==
    Len(text) >= Len(w) /\ SubSeq(text, Len(text) - Len(w) + 1, Len(text)) = w

\* sep.join(parts)
RECURSIVE join(_, _)
join(sep, parts) ==
    IF parts = <<>> THEN <<>>
    ELSE IF Len(parts) = 1 THEN parts[1]
    ELSE parts[1] \o sep \o join(sep, Tail(parts))

\* Sequences over S of length at most n
SeqsUpTo(S, n) == UNION {[1..k -> S] : k \in 0..n}

\* Sequences of distinct members of S of length at most n
DistinctSeqsUpTo(S, n) ==
    {s \in SeqsUpTo(S, n) : \A a, b \in 1..Len(s) : a # b => s[a] # s[b]}

RECURSIVE Flatten(_)
Flatten(ss) == IF ss = <<>> THEN <<>> ELSE Head(ss) \o Flatten(Tail(ss))

-----------------------------------------------------------------------------
(* The rule tables. *)

\* The keys of KEYWORD_GROUPS in insertion order (dict iteration order)
GroupOrder == << "arts_culture", "artists_practice", "funding_tax" >>

KEYWORD_GROUPS ==
    [arts_culture |-> <<
        <<"a", "r", "t">>, <<"a", "r", "t", "w", "o", "r", "k">>, <<"a", "r", "t", "w", "o", "r", "k", "s">>, <<"a", "r", "t", "s">>, <<"p", "u", "b", "l", "i", "c", " ", "a", "r", "t">>,
        <<"m", "u", "r", "a", "l">>, <<"v", "i", "s", "u", "a", "l", " ", "a", "r", "t">>, <<"c", "u", "l", "t", "u", "r", "e">>, <<"c", "u", "l", "t", "u", "r", "a", "l">>,
        <<"m", "o", "n", "u", "m", "e", "n", "t">>, <<"s", "c", "u", "l", "p", "t", "u", "r", "e">>, <<"p", "a", "i", "n", "t", "i", "n", "g">> >>,
     artists_practice |-> <<
        <<"a", "r", "t", "i", "s", "t">>, <<"a", "r", "t", "i", "s", "t", "s">>, <<"d", "a", "n", "c", "e">>, <<"l", "i", "t", "e", "r", "a", "r", "y">>, <<"m", "u", "s", "i", "c">>, <<"f", "i", "l", "m">> >>,
     funding_tax |-> <<
        <<"h", "o", "t", "e", "l", " ", "t", "a", "x">>,
        <<"t", "r", "a", "n", "s", "i", "e", "n", "t", " ", "o", "c", "c", "u", "p", "a", "n", "c", "y", " ", "t", "a", "x">>,
        <<"t", "o", "t">>,
        <<"b", "u", "d", "g", "e", "t", " ", "a", "n", "d", " ", "a", "p", "p", "r", "o", "p", "r", "i", "a", "t", "i", "o", "n">>,
        <<"a", "p", "p", "r", "o", "p", "r", "i", "a", "t", "i", "o", "n", " ", "o", "r", "d", "i", "n", "a", "n", "c", "e">>,
        <<"a", "n", "n", "u", "a", "l", " ", "s", "a", "l", "a", "r", "y", " ", "o", "r", "d", "i", "n", "a", "n", "c", "e">> >>]

SECONDARY_TRIGGER_DEPARTMENTS == <<
    <<"a", "r", "t", "s", " ", "c", "o", "m", "m", "i", "s", "s", "i", "o", "n">>,
    <<"p", "u", "b", "l", "i", "c", " ", "a", "r", "t", " ", "p", "r", "o", "g", "r", "a", "m">>,
    <<"a", "s", "i", "a", "n", " ", "a", "r", "t", " ", "m", "u", "s", "e", "u", "m">>,
    <<"d", "e", "p", "a", "r", "t", "m", "e", "n", "t", " ", "o", "f", " ", "c", "h", "i", "l", "d", "r", "e", "n", ",", " ", "y", "o", "u", "t", "h", " ", "a", "n", "d", " ", "t", "h", "e", "i", "r", " ", "f", "a", "m", "i", "l", "i", "e", "s">>,
    <<"e", "c", "o", "n", "o", "m", "i", "c", " ", "a", "n", "d", " ", "w", "o", "r", "k", "f", "o", "r", "c", "e", " ", "d", "e", "v", "e", "l", "o", "p", "m", "e", "n", "t">>,
    <<"o", "f", "f", "i", "c", "e", " ", "o", "f", " ", "e", "c", "o", "n", "o", "m", "i", "c", " ", "a", "n", "d", " ", "w", "o", "r", "k", "f", "o", "r", "c", "e", " ", "d", "e", "v", "e", "l", "o", "p", "m", "e", "n", "t">>,
    <<"f", "i", "n", "e", " ", "a", "r", "t", "s", " ", "m", "u", "s", "e", "u", "m">>,
    <<"f", "i", "n", "e", " ", "a", "r", "t", "s", " ", "m", "u", "s", "e", "u", "m", "s">>,
    <<"g", "r", "a", "n", "t", "s", " ", "f", "o", "r", " ", "t", "h", "e", " ", "a", "r", "t", "s">>,
    <<"m", "u", "s", "e", "u", "m", " ", "o", "f", " ", "t", "h", "e", " ", "a", "f", "r", "i", "c", "a", "n", " ", "d", "i", "a", "s", "p", "o", "r", "a">>,
    <<"y", "e", "r", "b", "a", " ", "b", "u", "e", "n", "a", " ", "c", "e", "n", "t", "e", "r", " ", "f", "o", "r", " ", "t", "h", "e", " ", "a", "r", "t", "s">> >>

ESCALATION_COMMITTEES == <<
    <<"b", "u", "d", "g", "e", "t", " ", "a", "n", "d", " ", "f", "i", "n", "a", "n", "c", "e">>,
    <<"b", "u", "d", "g", "e", "t", " ", "a", "n", "d", " ", "a", "p", "p", "r", "o", "p", "r", "i", "a", "t", "i", "o", "n", "s">>,
    <<"a", "p", "p", "r", "o", "p", "r", "i", "a", "t", "i", "o", "n", "s">>,
    <<"g", "o", "v", "e", "r", "n", "m", "e", "n", "t", " ", "a", "u", "d", "i", "t", " ", "a", "n", "d", " ", "o", "v", "e", "r", "s", "i", "g", "h", "t">>,
    <<"r", "u", "l", "e", "s", " ", "c", "o", "m", "m", "i", "t", "t", "e", "e">> >>

KNOWN_STATUSES == {
    <<"3", "0", " ", "D", "a", "y", " ", "R", "u", "l", "e">>,
    <<"C", "o", "m", "p", "l", "e", "t", "e", "d">>,
    <<"C", "o", "n", "s", "e", "n", "t", " ", "A", "g", "e", "n", "d", "a">>,
    <<"D", "i", "s", "a", "p", "p", "r", "o", "v", "e", "d">>,
    <<"D", "i", "s", "c", "u", "s", "s", "e", "d", " ", "a", "n", "d", " ", "F", "i", "l", "e", "d">>,
    <<"F", "a", "i", "l", "e", "d">>,
    <<"F", "i", "l", "e", "d">>,
    <<"F", "i", "r", "s", "t", " ", "R", "e", "a", "d", "i", "n", "g">>,
    <<"F", "i", "r", "s", "t", " ", "R", "e", "a", "d", "i", "n", "g", ",", " ", "C", "o", "n", "s", "e", "n", "t">>,
    <<"F", "o", "r", " ", "I", "m", "m", "e", "d", "i", "a", "t", "e", " ", "A", "d", "o", "p", "t", "i", "o", "n">>,
    <<"H", "e", "a", "r", "d">>,
    <<"I", "n", "t", "r", "o", "d", "u", "c", "e", "d">>,
    <<"K", "i", "l", "l", "e", "d">>,
    <<"L", "i", "t", "i", "g", "a", "t", "i", "o", "n", "-", "A", "t", "t", "o", "r", "n", "e", "y">>,
    <<"M", "a", "y", "o", "r", "s", " ", "O", "f", "f", "i", "c", "e">>,
    <<"N", "e", "w", " ", "B", "u", "s", "i", "n", "e", "s", "s">>,
    <<"P", "a", "s", "s", "e", "d">>,
    <<"P", "e", "n", "d", "i", "n", "g">>,
    <<"P", "e", "n", "d", "i", "n", "g", " ", "C", "o", "m", "m", "i", "t", "t", "e", "e", " ", "A", "c", "t", "i", "o", "n">>,
    <<"S", "p", "e", "c", "i", "a", "l", " ", "O", "r", "d", "e", "r">>,
    <<"T", "o", " ", "b", "e", " ", "S", "c", "h", "e", "d", "u", "l", "e", "d", " ", "f", "o", "r", " ", "P", "u", "b", "l", "i", "c", " ", "H", "e", "a", "r", "i", "n", "g">>,
    <<"U", "n", "f", "i", "n", "i", "s", "h", "e", "d", " ", "B", "u", "s", "i", "n", "e", "s", "s">>,
    <<"U", "n", "f", "i", "n", "i", "s", "h", "e", "d", " ", "B", "u", "s", "i", "n", "e", "s", "s", "-", "F", "i", "n", "a", "l", " ", "P", "a", "s", "s", "a", "g", "e">>,
    <<"V", "e", "t", "o", "e", "d">>,
    <<"W", "i", "t", "h", "d", "r", "a", "w", "n">> }

-----------------------------------------------------------------------------
(* The rule evaluator. *)

\* match_keywords without text.lower(): a faulty variant
match_keywords_cased(text) ==
    LET matches(g) == SelectSeq(KEYWORD_GROUPS[g], LAMBDA w : Contains(text, w))
    IN  [g \in {h \in Range(GroupOrder) : matches(h) # <<>>} |-> matches(g)]

\* match_keywords(text): the dict group -> matched phrases, for the groups that hit
match_keywords(text) ==
    LET lowered == lower(text)
        matches(g) == SelectSeq(KEYWORD_GROUPS[g], LAMBDA w : Contains(lowered, w))
    IN  [g \in {h \in Range(GroupOrder) : matches(h) # <<>>} |-> matches(g)]

\* list(keyword_hits.keys()): the hit groups in insertion order
keyword_groups(keyword_hits) ==
    SelectSeq(GroupOrder, LAMBDA g : g \in DOMAIN keyword_hits)

\* department_trigger(dept), dept a JSON value
department_trigger(dept) ==
    IF ~Truthy(dept) THEN FALSE
    ELSE LET d == lower(dept.str)
         IN  \E k \in 1..Len(SECONDARY_TRIGGER_DEPARTMENTS) :
                Contains(d, SECONDARY_TRIGGER_DEPARTMENTS[k])

\* committee_escalation(committees), committees a collection of strings
committee_escalation(committees) ==
    \E c \in committees :
        \E k \in 1..Len(ESCALATION_COMMITTEES) :
            Contains(lower(c), ESCALATION_COMMITTEES[k])

\* assign_priority with the HIGH test dropped: a faulty variant
assign_priority_no_high(keyword_hits, dept_hit, committee_hit) ==
    LET funding_hit == "funding_tax" \in DOMAIN keyword_hits
    IN  IF funding_hit \/ dept_hit \/ committee_hit THEN "MEDIUM"
        ELSE "LOW"

\* assign_priority(keyword_hits, dept_hit, committee_hit)
assign_priority(keyword_hits, dept_hit, committee_hit) ==
    LET funding_hit == "funding_tax" \in DOMAIN keyword_hits
    IN  IF funding_hit /\ (dept_hit \/ committee_hit) THEN "HIGH"
        ELSE IF funding_hit \/ dept_hit \/ committee_hit THEN "MEDIUM"
        ELSE "LOW"

-----------------------------------------------------------------------------
(* The lookups.  An HTTP response is [status_code, body]. *)

\* A helper either returns a value or lets an exception escape.
Ret(v) == [ret |-> v]
Raise(e) == [raise |-> e]

\* fetch_history with the status ignored: a faulty variant
fetch_history_unchecked(r) == r.body

\* fetch_history(matter_id), given the response to its GET
fetch_history(r) == IF r.status_code # 200 THEN <<>> ELSE r.body

\* seq.isdigit(), on ASCII text
isdigit(s) == s # <<>> /\ \A k \in 1..Len(s) : s[k] \in Digits

\* int(s) of a string of digits
RECURSIVE int(_)
int(s) ==
    IF s = <<>> THEN 0
    ELSE 10 * int(SubSeq(s, 1, Len(s) - 1)) + (IndexOf(DigitChars, s[Len(s)]) - 1)

\* seq_num of fetch_sponsors: JInt(n), or JNull for None.
\* bool is a subclass of int: isinstance(True, int) holds and True == 1.
seq_num(seq) ==
    IF IsInt(seq) THEN seq
    ELSE IF IsBool(seq) THEN JInt(IF seq.bool THEN 1 ELSE 0)
    ELSE IF IsStr(seq) /\ isdigit(seq.str) THEN JInt(int(seq.str))
    ELSE JNull

\* is_primary is True
IsTrue(v) == IsBool(v) /\ v.bool

\* the for loop of fetch_sponsors over the entries left, from (primary, secondary)
RECURSIVE sponsors_loop(_, _, _)
sponsors_loop(sponsors, primary, secondary) ==
    IF sponsors = <<>> THEN << primary, secondary >>
    ELSE LET s == Head(sponsors)
             name == Get(s, "MatterSponsorName", JNull)
             n == seq_num(Get(s, "MatterSponsorSequence", JNull))
             is_primary == Get(s, "MatterSponsorPrimary", JNull)
         IN  IF ~Truthy(name) THEN sponsors_loop(Tail(sponsors), primary, secondary)
             ELSE IF IsTrue(is_primary) \/ n = JInt(1)
                  THEN sponsors_loop(Tail(sponsors), name, secondary)
             ELSE IF Truthy(n) /\ n.int > 1
                  THEN sponsors_loop(Tail(sponsors), primary, Append(secondary, name))
             ELSE sponsors_loop(Tail(sponsors), primary, secondary)

\* fetch_sponsors(matter_id), given the response to its GET: (primary, secondary)
fetch_sponsors(r) ==
    IF r.status_code # 200 THEN << JNull, <<>> >>
    ELSE sponsors_loop(r.body, JNull, <<>>)

-----------------------------------------------------------------------------
(* The date normalizer. *)

\* seconds in a day
SecondsPerDay == 86400
\* days from 1970-01-01 to 9999-12-31, the last date datetime holds
MaxDays == 2932896

Min(a, b) == IF a < b THEN a ELSE b

\* floor(int(digits) / SecondsPerDay), computed digit by digit and capped at
\* MaxDays + 1: from quotient q and remainder r of the digits read so far
RECURSIVE DaysOf(_, _, _)
DaysOf(digits, q, r) ==
    IF digits = <<>> THEN q
    ELSE LET n == 10 * r + (IndexOf(DigitChars, Head(digits)) - 1)
         IN  DaysOf(Tail(digits), Min(10 * q + (n \div SecondsPerDay), MaxDays + 1),
                    n % SecondsPerDay)

\* the proleptic Gregorian date of a day number counted from 1970-01-01
CivilFromDays(days) ==
    LET z == days + 719468
        era == z \div 146097
        doe == z - era * 146097
        yoe == (doe - (doe \div 1460) + (doe \div 36524) - (doe \div 146096)) \div 365
        doy == doe - (365 * yoe + (yoe \div 4) - (yoe \div 100))
        mp == (5 * doy + 2) \div 153
        d == doy - ((153 * mp + 2) \div 5) + 1
        m == IF mp < 10 THEN mp + 3 ELSE mp - 9
        y == yoe + era * 400 + (IF m <= 2 THEN 1 ELSE 0)
    IN  [year |-> y, month |-> m, day |-> d]

Digit(n) == DigitChars[n + 1]

\* date.isoformat(): YYYY-MM-DD
isoformat(date) ==
    << Digit(date.year \div 1000), Digit((date.year \div 100) % 10),
       Digit((date.year \div 10) % 10), Digit(date.year % 10), "-",
       Digit(date.month \div 10), Digit(date.month % 10), "-",
       Digit(date.day \div 10), Digit(date.day % 10) >>

\* datetime.utcfromtimestamp(int(digits) / 1000).date(): the date, or the
\* exception raised for a time past the year 9999.  int(digits) / 1000 drops
\* the last three digits as far as the date is concerned.
utcfromtimestamp_date(digits) ==
    LET seconds == SubSeq(digits, 1, Len(digits) - 3)
        days == DaysOf(seconds, 0, 0)
    IN  IF days > MaxDays THEN Raise("ValueError") ELSE Ret(CivilFromDays(days))

IsLeap(y) == (y % 4 = 0 /\ y % 100 # 0) \/ y % 400 = 0

DaysInMonth(y, m) ==
    IF m = 2 THEN (IF IsLeap(y) THEN 29 ELSE 28)
    ELSE IF m \in {4, 6, 9, 11} THEN 30 ELSE 31

\* HH, HH:MM or HH:MM:SS
IsClock(t) ==
    /\ Len(t) \in {2, 5, 8}
    /\ \A k \in 1..Len(t) : IF k \in {3, 6} THEN t[k] = ":" ELSE t[k] \in Digits
    /\ int(SubSeq(t, 1, 2)) < 24
    /\ Len(t) >= 5 => int(SubSeq(t, 4, 5)) < 60
    /\ Len(t) = 8 => int(SubSeq(t, 7, 8)) < 60

\* the time part of an ISO string: a clock, then an optional +HH:MM or -HH:MM
IsTimePart(t) ==
    \/ IsClock(t)
    \/ /\ Len(t) >= 8
       /\ t[Len(t) - 5] \in {"+", "-"}
       /\ IsClock(SubSeq(t, Len(t) - 4, Len(t)))
       /\ IsClock(SubSeq(t, 1, Len(t) - 6))

\* datetime.fromisoformat(s).date() for the extended format
\* YYYY-MM-DD[*HH[:MM[:SS]][+HH:MM]]: the date, or ValueError
fromisoformat_date(s) ==
    IF /\ Len(s) >= 10
       /\ \A k \in 1..10 : IF k \in {5, 8} THEN s[k] = "-" ELSE s[k] \in Digits
       /\ Len(s) > 10 => Len(s) >= 13 /\ IsTimePart(SubSeq(s, 12, Len(s)))
    THEN LET y == int(SubSeq(s, 1, 4))
             m == int(SubSeq(s, 6, 7))
             d == int(SubSeq(s, 9, 10))
         IN  IF y >= 1 /\ m \in 1..12 /\ d \in 1..DaysInMonth(y, m)
             THEN Ret([year |-> y, month |-> m, day |-> d])
             ELSE Raise("ValueError")
    ELSE Raise("ValueError")

\* value.replace("Z", "+00:00")
RECURSIVE replaceZ(_)
replaceZ(s) ==
    IF s = <<>> THEN <<>>
    ELSE (IF Head(s) = "Z" THEN <<"+", "0", "0", ":", "0", "0">> ELSE <<Head(s)>>) \o replaceZ(Tail(s))

\* parse_legistar_date(value), value a JSON value: the string returned, or the
\* exception that escapes
parse_legistar_date(value) ==
    IF ~Truthy(value) THEN Ret(<<>>)
    ELSE IF ~IsStr(value) THEN Ret(<<>>)
    ELSE LET s == value.str
             inner == SubSeq(s, 7, Len(s) - 2)
             digits == SelectSeq(inner, LAMBDA ch : ch \in Digits)
             legacy == startswith(s, <<"/", "D", "a", "t", "e", "(">>) /\ endswith(s, <<")", "/">>) /\ digits # <<>>
             stamp == utcfromtimestamp_date(digits)
             iso == fromisoformat_date(replaceZ(s))
         IN  IF legacy
             THEN (IF "raise" \in DOMAIN stamp THEN stamp ELSE Ret(isoformat(stamp.ret)))
             ELSE IF "raise" \in DOMAIN iso THEN Ret(<<>>)
             ELSE Ret(isoformat(iso.ret))

-----------------------------------------------------------------------------
(* run_monitor. *)

\* str(n) for 0 <= n < 100
str(n) == IF n < 10 THEN << Digit(n) >> ELSE << Digit(n \div 10), Digit(n % 10) >>

\* datetime.utcnow().date().isoformat(): the day of the run
date_checked == <<"2", "0", "2", "4", "-", "0", "1", "-", "0", "9">>

\* " ".join(filter(None, [MatterName, MatterTitle, MatterText]))
text_of(m) ==
    LET fields == << Get(m, "MatterName", JStr(<<>>)),
                     Get(m, "MatterTitle", JStr(<<>>)),
                     Get(m, "MatterText", JStr(<<>>)) >>
        kept == SelectSeq(fields, Truthy)
    IN  join(<<" ">>, [k \in 1..Len(kept) |-> kept[k].str])

\* the distinct truthy MatterHistoryActionName values of the history
committees_of(history) ==
    {Get(history[k], "MatterHistoryActionName", JStr(<<>>)).str :
        k \in {n \in 1..Len(history) :
                 Truthy(Get(history[n], "MatterHistoryActionName", JNull))}}

\* matter_id in seen_matter_ids, with the test dropped: a faulty variant
already_seen_never(matter_id, seen) == FALSE

\* matter_id in seen_matter_ids
already_seen(matter_id, seen) == matter_id \in seen

\* the filter with `or` for `and`: a faulty variant
skip_matter_either(keyword_hits, dept_hit) == DOMAIN keyword_hits = {} \/ ~dept_hit

\* not keyword_hits and not dept_hit: the matter is dropped
skip_matter(keyword_hits, dept_hit) == DOMAIN keyword_hits = {} /\ ~dept_hit

\* the status passed through unchecked: a faulty variant
status_of_unchecked(m) == Get(m, "MatterStatusName", JStr(<<"P", "e", "n", "d", "i", "n", "g">>))

\* status = m.get("MatterStatusName", "Pending"), "Pending" if not a known status
status_of(m) ==
    LET status == Get(m, "MatterStatusName", JStr(<<"P", "e", "n", "d", "i", "n", "g">>))
    IN  IF IsStr(status) /\ status.str \in KNOWN_STATUSES THEN status
        ELSE JStr(<<"P", "e", "n", "d", "i", "n", "g">>)

\* the two dates of the item, each as parse_legistar_date answers
action_date_of(m) ==
    parse_legistar_date(Or(Get(m, "MatterLastActionDate", JNull),
                           Get(m, "MatterFinalActionDate", JStr(<<>>))))
final_action_date_of(m) == parse_legistar_date(Get(m, "MatterPassedDate", JStr(<<>>)))

\* the item dict of run_monitor
assemble(m, keyword_hits, priority, status, committees, sponsors) ==
    [matter_id |-> m["MatterId"],
     file_number |-> Get(m, "MatterFile", JStr(<<>>)),
     title |-> Get(m, "MatterName", JStr(<<"U", "n", "t", "i", "t", "l", "e", "d">>)),
     type |-> Get(m, "MatterTypeName", JStr(<<>>)),
     priority |-> priority,
     department |-> Get(m, "Department", JStr(<<>>)),
     in_control |-> Get(m, "MatterInControlName", JStr(<<>>)),
     action |-> Or(Get(m, "MatterLastActionName", JNull),
                   Get(m, "MatterFinalActionName", JStr(<<>>))),
     action_date |-> action_date_of(m).ret,
     final_action_date |-> final_action_date_of(m).ret,
     primary_sponsor |-> Or(sponsors[1], JStr(<<>>)),
     secondary_sponsors |-> sponsors[2],
     committees |-> committees,
     keyword_groups |-> keyword_groups(keyword_hits),
     status |-> status,
     url |-> <<"h", "t", "t", "p", "s", ":", "/", "/", "s", "f", "g", "o", "v", ".", "l", "e", "g", "i", "s", "t", "a", "r", ".", "c", "o", "m", "/", "L", "e", "g", "i", "s", "l", "a", "t", "i", "o", "n", "D", "e", "t", "a", "i", "l", ".", "a", "s", "p", "x", "?", "I", "D", "=">>
             \o str(m["MatterId"].int),
     date_checked |-> date_checked]

\* the names of the properties push_to_notion sends for an item
properties_of(it) ==
    { "Title", "Matter ID", "File Number", "Priority", "Department", "In Control",
      "Action", "Primary Sponsor", "Secondary Sponsors", "Committees",
      "Keyword Groups", "Status", "Legistar URL", "Date Checked" }
    \cup (IF Truthy(it.type) THEN {"Type of Legislation"} ELSE {})
    \cup (IF it.action_date # <<>> THEN {"Action Date"} ELSE {})
    \cup (IF it.final_action_date # <<>> THEN {"Final Action"} ELSE {})

\* push_to_notion with the response ignored: a faulty variant
push_to_notion_unchecked(it, r) == Ret(JNull)

\* push_to_notion(item), given the response to its POST
push_to_notion(it, r) == IF ~r.ok THEN Raise("RuntimeError") ELSE Ret(JNull)

(* What the services may answer. *)

IsoLocal == JStr(<<"2", "0", "2", "4", "-", "0", "1", "-", "0", "9", "T", "0", "0", ":", "0", "0", ":", "0", "0">>)

\* Matters as GET /matters sends them: any optional field may be absent, null
\* or a string; dates are absent, null or ISO-8601.
MatterPool ==
    { [MatterId |-> JInt(1), MatterTitle |-> JStr(<<"H", "o", "t", "e", "l", " ", "T", "a", "x">>)],
      [MatterId |-> JInt(1), MatterName |-> JNull, MatterTitle |-> JNull,
       MatterText |-> JNull, Department |-> JStr(<<"A", "r", "t", "s", " ", "C", "o", "m", "m", "i", "s", "s", "i", "o", "n">>),
       MatterStatusName |-> JNull, MatterLastActionName |-> JNull,
       MatterFinalActionName |-> JNull, MatterLastActionDate |-> JNull,
       MatterFinalActionDate |-> JNull, MatterPassedDate |-> JNull,
       MatterTypeName |-> JNull],
      [MatterId |-> JInt(1), MatterName |-> JStr(<<"Z", "o", "n", "i", "n", "g", " ", "m", "a", "p">>),
       Department |-> JStr(<<"P", "l", "a", "n", "n", "i", "n", "g">>), MatterStatusName |-> JStr(<<"P", "a", "s", "s", "e", "d">>),
       MatterLastActionName |-> JStr(<<"H", "e", "a", "r", "d">>), MatterLastActionDate |-> IsoLocal],
      [MatterId |-> JInt(2), MatterName |-> JStr(<<"M", "U", "R", "A", "L">>), MatterText |-> JStr(<<"f", "i", "l", "m">>),
       Department |-> JNull, MatterStatusName |-> JStr(<<"B", "o", "g", "u", "s">>),
       MatterLastActionName |-> JStr(<<>>), MatterFinalActionName |-> JStr(<<"F", "i", "l", "e", "d">>),
       MatterFinalActionDate |-> IsoLocal,
       MatterPassedDate |-> JStr(<<"2", "0", "2", "4", "-", "0", "2", "-", "2", "9", "T", "0", "0", ":", "0", "0", ":", "0", "0", "Z">>)],
      [MatterId |-> JInt(2)],
      [MatterId |-> JInt(2), MatterName |-> JStr(<<"B", "u", "d", "g", "e", "t", " ", "a", "n", "d", " ", "A", "p", "p", "r", "o", "p", "r", "i", "a", "t", "i", "o", "n", " ", "O", "r", "d", "i", "n", "a", "n", "c", "e">>),
       Department |-> JStr(<<"G", "r", "a", "n", "t", "s", " ", "f", "o", "r", " ", "t", "h", "e", " ", "A", "r", "t", "s">>), MatterStatusName |-> JStr(<<>>),
       MatterLastActionName |-> JStr(<<"P", "a", "s", "s", "e", "d">>), MatterTypeName |-> JStr(<<"O", "r", "d", "i", "n", "a", "n", "c", "e">>),
       MatterFile |-> JStr(<<"2", "4", "0", "0", "0", "1">>)],
      [MatterId |-> JInt(2), MatterName |-> JStr(<<"S", "t", "r", "e", "e", "t", " ", "r", "e", "p", "a", "i", "r">>),
       MatterTitle |-> JStr(<<"P", "u", "b", "l", "i", "c", " ", "A", "r", "t", " ", "p", "l", "a", "n">>), Department |-> JStr(<<>>),
       MatterStatusName |-> JStr(<<"P", "e", "n", "d", "i", "n", "g", " ", "C", "o", "m", "m", "i", "t", "t", "e", "e", " ", "A", "c", "t", "i", "o", "n">>)] }

Ids == {m["MatterId"] : m \in MatterPool}

EscalatingHistory ==
    << [MatterHistoryActionName |-> JStr(<<"B", "u", "d", "g", "e", "t", " ", "a", "n", "d", " ", "F", "i", "n", "a", "n", "c", "e", " ", "C", "o", "m", "m", "i", "t", "t", "e", "e">>)],
       [MatterHistoryActionName |-> JNull],
       [MatterHistoryActionName |-> JStr(<<"H", "e", "a", "r", "d">>)] >>

\* answers to GET .../history; a failure may carry any body
HistoryResponses ==
    { [status_code |-> 200, body |-> <<>>],
      [status_code |-> 200, body |-> EscalatingHistory],
      [status_code |-> 500, body |-> EscalatingHistory] }

SomeSponsors ==
    << [MatterSponsorName |-> JStr(<<"A">>), MatterSponsorSequence |-> JInt(1)],
       [MatterSponsorName |-> JStr(<<"B">>), MatterSponsorSequence |-> JInt(2)] >>

\* answers to GET .../sponsors
SponsorResponses ==
    { [status_code |-> 200, body |-> SomeSponsors],
      [status_code |-> 404, body |-> SomeSponsors] }

\* answers to the POST
PostResponses == { [ok |-> TRUE], [ok |-> FALSE] }

\* match_keywords(text) and department_trigger(m.get("Department", "")) of each
\* matter of the pool, computed once
keyword_hits_of == [m \in MatterPool |-> match_keywords(text_of(m))]
dept_hit_of == [m \in MatterPool |-> department_trigger(Get(m, "Department", JStr(<<>>)))]

helperVars == << call, result >>

runVars == << matters, run, pc, i, seen_matter_ids, item, created, posts,
              historyCalls, sponsorCalls, printed, last >>

Init ==
    /\ matters \in SeqsUpTo(MatterPool, MaxMatters)
    /\ run = 1
    /\ pc = "start"
    /\ i = 0
    /\ seen_matter_ids = {}
    /\ item = JNull
    /\ created = <<>>
    /\ posts = <<>>
    /\ historyCalls = <<>>
    /\ sponsorCalls = <<>>
    /\ printed = FALSE
    /\ last = JNull
    /\ call = [fn |-> "none"]
    /\ result = [pending |-> TRUE]

\* matters = fetch_matters(); seen_matter_ids = set()
FetchMatters ==
    /\ pc = "start"
    /\ \E status_code \in {200, 503} :
        /\ pc' = IF status_code = 200 THEN "loop" ELSE "aborted"
        /\ last' = [kind |-> "fetch_matters", status_code |-> status_code]
    /\ i' = 1
    /\ seen_matter_ids' = {}
    /\ UNCHANGED << matters, run, item, created, posts, historyCalls, sponsorCalls,
                    printed, helperVars >>

\* an iteration for a matter whose id was seen before
Duplicate ==
    /\ pc = "loop"
    /\ i <= Len(matters)
    /\ already_seen(matters[i]["MatterId"], seen_matter_ids)
    /\ i' = i + 1
    /\ last' = [kind |-> "duplicate", idx |-> i]
    /\ UNCHANGED << matters, run, pc, seen_matter_ids, item, created, posts,
                    historyCalls, sponsorCalls, printed, helperVars >>

\* an iteration that classifies the matter and drops it
Skip ==
    /\ pc = "loop"
    /\ i <= Len(matters)
    /\ LET m == matters[i]
           keyword_hits == keyword_hits_of[m]
           dept_hit == dept_hit_of[m]
       IN  /\ ~already_seen(m["MatterId"], seen_matter_ids)
           /\ skip_matter(keyword_hits, dept_hit)
           /\ seen_matter_ids' = seen_matter_ids \cup {m["MatterId"]}
           /\ \E hr \in HistoryResponses :
                /\ historyCalls' = Append(historyCalls, [id |-> m["MatterId"],
                                                         status_code |-> hr.status_code])
                /\ last' = [kind |-> "skip", idx |-> i, history |-> hr.status_code,
                         committee_hit |-> committee_escalation(committees_of(fetch_history(hr)))]
    /\ i' = i + 1
    /\ UNCHANGED << matters, run, pc, item, created, posts, sponsorCalls, printed,
                    helperVars >>

\* an iteration that classifies the matter, assembles its item and pushes it
Export ==
    /\ pc = "loop"
    /\ i <= Len(matters)
    /\ LET m == matters[i]
           keyword_hits == keyword_hits_of[m]
           dept_hit == dept_hit_of[m]
       IN  /\ ~already_seen(m["MatterId"], seen_matter_ids)
           /\ ~skip_matter(keyword_hits, dept_hit)
           /\ seen_matter_ids' = seen_matter_ids \cup {m["MatterId"]}
           /\ \E hr \in HistoryResponses, sr \in SponsorResponses, pr \in PostResponses :
                LET committees == committees_of(fetch_history(hr))
                    committee_hit == committee_escalation(committees)
                    priority == assign_priority(keyword_hits, dept_hit, committee_hit)
                    it == assemble(m, keyword_hits, priority, status_of(m), committees,
                                   fetch_sponsors(sr))
                    pushed == push_to_notion(it, pr)
                    io == [idx |-> i, history |-> hr.status_code,
                           sponsors |-> sr.status_code]
                IN  /\ historyCalls' = Append(historyCalls,
                            [id |-> m["MatterId"], status_code |-> hr.status_code])
                    /\ sponsorCalls' = Append(sponsorCalls,
                            [id |-> m["MatterId"], status_code |-> sr.status_code])
                    /\ IF \/ "raise" \in DOMAIN action_date_of(m)
                          \/ "raise" \in DOMAIN final_action_date_of(m)
                        THEN \* the exception of parse_legistar_date ends the run
                             /\ pc' = "aborted"
                             /\ last' = io @@ [kind |-> "date_error"]
                             /\ UNCHANGED << i, item, posts, created >>
                        ELSE /\ item' = it
                             /\ posts' = Append(posts,
                                    [id |-> m["MatterId"], ok |-> pr.ok,
                                     properties |-> properties_of(it)])
                             /\ last' = io @@ [kind |-> "export", ok |-> pr.ok]
                             /\ created' = IF pr.ok THEN Append(created, m["MatterId"])
                                           ELSE created
                             /\ IF "raise" \in DOMAIN pushed
                                THEN pc' = "aborted" /\ i' = i
                                ELSE pc' = "loop" /\ i' = i + 1
    /\ UNCHANGED << matters, run, printed, helperVars >>

\* the loop is over: the completion message
Complete ==
    /\ pc = "loop"
    /\ i > Len(matters)
    /\ printed' = TRUE
    /\ pc' = "done"
    /\ UNCHANGED << matters, run, i, seen_matter_ids, item, created, posts,
                    historyCalls, sponsorCalls, last, helperVars >>

\* the script is run again after a completed run
Rerun ==
    /\ pc = "done"
    /\ run < MaxRuns
    /\ run' = run + 1
    /\ pc' = "start"
    /\ i' = 0
    /\ seen_matter_ids' = {}
    /\ item' = JNull
    /\ posts' = <<>>
    /\ historyCalls' = <<>>
    /\ sponsorCalls' = <<>>
    /\ printed' = FALSE
    /\ last' = JNull
    /\ UNCHANGED << matters, created, helperVars >>

Next ==
    \/ FetchMatters
    \/ Duplicate
    \/ Skip
    \/ Export
    \/ Complete
    \/ Rerun

Spec == Init /\ [][Next]_vars

-----------------------------------------------------------------------------
(* The helpers on their own: a call is drawn from bounded inputs and applied. *)

Pending == [pending |-> TRUE]

Groups == Range(GroupOrder)

\* keyword_hits dicts: any set of groups, each with one matched phrase
KeywordHits == {[g \in S |-> << KEYWORD_GROUPS[g][1] >>] : S \in SUBSET Groups}

PriorityCalls ==
    {[fn |-> "assign_priority", args |-> << k, d, c >>] :
        k \in KeywordHits, d \in BOOLEAN, c \in BOOLEAN}

TextFragments ==
    { <<"a", "r", "t">>, <<"A", "r", "t">>, <<"A", "R", "T", "I", "S", "T">>, <<"F", "i", "l", "m">>, <<"T", "o", "T">>, <<"h", "o", "t", "e", "l", " ">>, <<"T", "A", "X">>,
      <<"m", "u", "r">>, <<"A", "L">>, <<"x">>, <<" ">> }

KeywordCalls ==
    {[fn |-> "match_keywords", args |-> << Flatten(fs) >>] :
        fs \in SeqsUpTo(TextFragments, MaxFragments)}

SponsorPool ==
    { [MatterSponsorName |-> JStr(<<"A">>), MatterSponsorSequence |-> JInt(1)],
      [MatterSponsorName |-> JStr(<<"B">>), MatterSponsorSequence |-> JInt(2)],
      [MatterSponsorName |-> JStr(<<"C">>), MatterSponsorSequence |-> JInt(3),
       MatterSponsorPrimary |-> JBool(TRUE)],
      [MatterSponsorName |-> JStr(<<"D">>), MatterSponsorSequence |-> JStr(<<"1">>),
       MatterSponsorPrimary |-> JBool(FALSE)],
      [MatterSponsorName |-> JStr(<<"E">>), MatterSponsorSequence |-> JStr(<<"0", "2">>)],
      [MatterSponsorName |-> JNull, MatterSponsorSequence |-> JInt(1),
       MatterSponsorPrimary |-> JBool(TRUE)],
      [MatterSponsorName |-> JStr(<<"G">>), MatterSponsorSequence |-> JNull,
       MatterSponsorPrimary |-> JNull] }

SponsorCalls ==
    {[fn |-> "fetch_sponsors", args |-> << [status_code |-> 200, body |-> b] >>] :
        b \in DistinctSeqsUpTo(SponsorPool, MaxSponsors)}
    \cup {[fn |-> "fetch_sponsors", args |-> << [status_code |-> 500, body |-> <<>>] >>]}

DateFragments ==
    { <<"1", "7", "0", "0", "0", "0", "0", "0", "0", "0", "0", "0", "0">>, <<"2", "5", "3", "4", "0", "2", "3", "0", "0", "7", "9", "9">>, <<"2", "5", "3", "4", "0", "2", "3", "0", "0", "8", "0", "0">>, <<"9", "9", "9">>, <<"0", "0", "0">>,
      <<"-", "0", "8", "0", "0">>, <<"-">>, <<"x">> }

LegacyDates ==
    {JStr(<<"/", "D", "a", "t", "e", "(">> \o Flatten(fs) \o <<")", "/">>) : fs \in SeqsUpTo(DateFragments, MaxDateParts)}

OtherDates ==
    { JNull, JStr(<<>>), JInt(0), JInt(5), JBool(TRUE),
      JStr(<<"2", "0", "2", "4", "-", "0", "1", "-", "0", "9", "T", "0", "0", ":", "0", "0", ":", "0", "0">>), JStr(<<"2", "0", "2", "4", "-", "0", "1", "-", "0", "9">>), JStr(<<"2", "0", "2", "4", "-", "0", "1", "-", "0", "9", "T", "0", "0", ":", "0", "0", ":", "0", "0", "Z">>),
      JStr(<<"2", "0", "2", "4", "-", "0", "2", "-", "2", "9">>), JStr(<<"2", "0", "2", "3", "-", "0", "2", "-", "2", "9">>), JStr(<<"2", "0", "2", "4", "-", "1", "3", "-", "0", "1">>),
      JStr(<<"2", "0", "2", "4", "-", "0", "1", "-", "0", "9", "T", "2", "5", ":", "0", "0", ":", "0", "0">>), JStr(<<"0", "0", "0", "0", "-", "0", "1", "-", "0", "1">>), JStr(<<"g", "a", "r", "b", "a", "g", "e">>),
      JStr(<<"Z">>), JStr(<<"/", "D", "a", "t", "e", "(", "1", "7">>), JStr(<<"1", "7", "0", "0", "0", "0", "0", "0", "0", "0", "0", "0", "0", ")", "/">>) }

DateCalls ==
    {[fn |-> "parse_legistar_date", args |-> << v >>] : v \in LegacyDates \cup OtherDates}

IdleRun ==
    /\ matters = <<>>
    /\ run = 0
    /\ pc = "idle"
    /\ i = 0
    /\ seen_matter_ids = {}
    /\ item = JNull
    /\ created = <<>>
    /\ posts = <<>>
    /\ historyCalls = <<>>
    /\ sponsorCalls = <<>>
    /\ printed = FALSE
    /\ last = JNull

HelperInit ==
    /\ IdleRun
    /\ call \in PriorityCalls \cup KeywordCalls \cup SponsorCalls \cup DateCalls
    /\ result = Pending

CallAssignPriority ==
    /\ call.fn = "assign_priority"
    /\ result = Pending
    /\ result' = Ret(assign_priority(call.args[1], call.args[2], call.args[3]))
    /\ UNCHANGED << call, runVars >>

CallMatchKeywords ==
    /\ call.fn = "match_keywords"
    /\ result = Pending
    /\ result' = Ret(match_keywords(call.args[1]))
    /\ UNCHANGED << call, runVars >>

CallFetchSponsors ==
    /\ call.fn = "fetch_sponsors"
    /\ result = Pending
    /\ result' = Ret(fetch_sponsors(call.args[1]))
    /\ UNCHANGED << call, runVars >>

CallParseDate ==
    /\ call.fn = "parse_legistar_date"
    /\ result = Pending
    /\ result' = parse_legistar_date(call.args[1])
    /\ UNCHANGED << call, runVars >>

HelperNext ==
    \/ CallAssignPriority
    \/ CallMatchKeywords
    \/ CallFetchSponsors
    \/ CallParseDate

HelperSpec == HelperInit /\ [][HelperNext]_vars

Returned(fn) == call.fn = fn /\ "ret" \in DOMAIN result
Raised(fn) == call.fn = fn /\ "raise" \in DOMAIN result

-----------------------------------------------------------------------------
(* Properties. *)

\* the position is the first one in matters with its id
FirstOccurrence(k) == \A j \in 1..(k - 1) : matters[j]["MatterId"] # matters[k]["MatterId"]

\* the keyword match is non-empty or the department triggers
Eligible(m) == DOMAIN keyword_hits_of[m] # {} \/ dept_hit_of[m]

\* the positions whose iteration this run has gone through
Reached ==
    IF pc = "loop" THEN 1..(i - 1)
    ELSE IF pc = "done" THEN 1..Len(matters)
    ELSE IF pc = "aborted" /\ last.kind = "export" THEN 1..i
    ELSE {}

PostedIds == {posts[k].id : k \in 1..Len(posts)}

Rejected == \E k \in 1..Len(posts) : ~posts[k].ok

Exported == pc \in {"loop", "done", "aborted"} /\ last.kind = "export"

Count(s, x) == Cardinality({k \in 1..Len(s) : s[k] = x})

\* C1: assign_priority returns HIGH exactly when funding_tax is hit and the
\* department or the committee triggers, MEDIUM exactly when one of the three
\* holds and HIGH does not, LOW exactly when none holds; the other keyword
\* groups play no part and nothing else is returned.
C1_PriorityTable ==
    Returned("assign_priority") =>
        LET funding == "funding_tax" \in DOMAIN call.args[1]
            dept == call.args[2]
            committee == call.args[3]
            expected ==
                CASE << funding, dept, committee >> = << TRUE, TRUE, TRUE >> -> "HIGH"
                  [] << funding, dept, committee >> = << TRUE, TRUE, FALSE >> -> "HIGH"
                  [] << funding, dept, committee >> = << TRUE, FALSE, TRUE >> -> "HIGH"
                  [] << funding, dept, committee >> = << TRUE, FALSE, FALSE >> -> "MEDIUM"
                  [] << funding, dept, committee >> = << FALSE, TRUE, TRUE >> -> "MEDIUM"
                  [] << funding, dept, committee >> = << FALSE, TRUE, FALSE >> -> "MEDIUM"
                  [] << funding, dept, committee >> = << FALSE, FALSE, TRUE >> -> "MEDIUM"
                  [] << funding, dept, committee >> = << FALSE, FALSE, FALSE >> -> "LOW"
        IN  /\ result.ret = expected
            /\ result.ret \in {"HIGH", "MEDIUM", "LOW"}
            /\ result.ret = "HIGH" <=> (funding /\ (dept \/ committee))
            /\ result.ret = "LOW" <=> (~funding /\ ~dept /\ ~committee)

\* funding with a committee hit and no department hit, among other groups: HIGH
C1_Witness ==
    /\ Returned("assign_priority")
    /\ DOMAIN call.args[1] = {"arts_culture", "funding_tax"}
    /\ ~call.args[2]
    /\ call.args[3]
    /\ result.ret = "HIGH"

RECURSIVE FirstIds(_)
FirstIds(n) ==
    IF n = 0 THEN <<>>
    ELSE IF FirstOccurrence(n) THEN Append(FirstIds(n - 1), matters[n]["MatterId"])
    ELSE FirstIds(n - 1)

IdsOf(log) == [k \in 1..Len(log) |-> log[k].id]

AcceptedIds == IdsOf(SelectSeq(posts, LAMBDA p : p.ok))

\* C3: once a write is rejected the run is over at that matter: nothing is
\* looked up or pushed for a later matter, the completion message is not
\* printed, and the rows created before stay.
C3_RejectedWriteAborts ==
    Rejected =>
        /\ pc = "aborted"
        /\ ~printed
        /\ ~posts[Len(posts)].ok
        /\ \A k \in 1..(Len(posts) - 1) : posts[k].ok
        /\ posts[Len(posts)].id = matters[i]["MatterId"]
        /\ IdsOf(historyCalls) = FirstIds(i)
        /\ IdsOf(sponsorCalls) = IdsOf(posts)
        /\ Len(created) >= Len(AcceptedIds)
        /\ SubSeq(created, Len(created) - Len(AcceptedIds) + 1, Len(created)) = AcceptedIds

\* the write for the first matter is rejected and an eligible matter with
\* another id follows
C3_Witness ==
    /\ Rejected
    /\ i < Len(matters)
    /\ matters[i + 1]["MatterId"] # matters[i]["MatterId"]
    /\ Eligible(matters[i + 1])

NamedSponsors == {s \in Range(call.args[1].body) : Truthy(Get(s, "MatterSponsorName", JNull))}

FlaggedSponsors == {s \in NamedSponsors : IsTrue(Get(s, "MatterSponsorPrimary", JNull))}

FirstInSequence(s) == seq_num(Get(s, "MatterSponsorSequence", JNull)) = JInt(1)

\* C5: when a named entry is flagged primary the primary returned is a flagged
\* entry, and an unflagged entry of sequence 1 is neither primary nor
\* secondary, in whatever order the entries arrive; with no flagged entry the
\* entry of sequence 1 is the primary.
C5_FlagBeforeSequence ==
    (Returned("fetch_sponsors") /\ call.args[1].status_code = 200) =>
        LET primary == result.ret[1]
            secondary == result.ret[2]
        IN  IF FlaggedSponsors # {}
            THEN /\ primary \in {s["MatterSponsorName"] : s \in FlaggedSponsors}
                 /\ \A s \in NamedSponsors \ FlaggedSponsors :
                       FirstInSequence(s) =>
                          /\ primary # s["MatterSponsorName"]
                          /\ s["MatterSponsorName"] \notin Range(secondary)
            ELSE (\E s \in NamedSponsors : FirstInSequence(s)) =>
                    \E s \in NamedSponsors :
                       FirstInSequence(s) /\ primary = s["MatterSponsorName"]

IsIsoDate(s) ==
    /\ Len(s) = 10
    /\ \A k \in 1..10 : IF k \in {5, 8} THEN s[k] = "-" ELSE s[k] \in Digits

\* C6: parse_legistar_date lets no exception escape and returns a YYYY-MM-DD
\* string or the empty string.
C6_NoExceptionEscapes ==
    call.fn = "parse_legistar_date" =>
        /\ ~Raised("parse_legistar_date")
        /\ Returned("parse_legistar_date") => (result.ret = <<>> \/ IsIsoDate(result.ret))

\* C7: the item pushed has no null title, department, action or status: a
\* missing title is "Untitled", a missing department or action is "", a
\* missing status is "Pending".
C7_NoNullInItem ==
    Exported =>
        LET m == matters[last.idx]
            Missing(key) == IsNull(Get(m, key, JNull))
        IN  /\ ~IsNull(item.title)
            /\ ~IsNull(item.department)
            /\ ~IsNull(item.action)
            /\ ~IsNull(item.status)
            /\ Missing("MatterName") => item.title = JStr(<<"U", "n", "t", "i", "t", "l", "e", "d">>)
            /\ Missing("Department") => item.department = JStr(<<>>)
            /\ (Missing("MatterLastActionName") /\ Missing("MatterFinalActionName"))
                  => item.action = JStr(<<>>)
            /\ Missing("MatterStatusName") => item.status = JStr(<<"P", "e", "n", "d", "i", "n", "g">>)

\* the first occurrence of the id in matters is eligible
EligibleId(id) ==
    \E k \in 1..Len(matters) :
        matters[k]["MatterId"] = id /\ FirstOccurrence(k) /\ Eligible(matters[k])

SameLetter(a, b) ==
    \/ a = b
    \/ \E k \in 1..26 : {a, b} = {UpperChars[k], LowerChars[k]}

\* the phrase occurs in the text, letter case ignored
Occurs(w, text) ==
    \E p \in 1..(Len(text) - Len(w) + 1) :
        \A k \in 1..Len(w) : SameLetter(text[p + k - 1], w[k])

\* C9: match_keywords returns exactly the groups with a phrase that occurs in
\* the text whatever the letter case, each with exactly its phrases that
\* occur; it returns nothing exactly when no phrase occurs.
C9_KeywordGroupsExact ==
    Returned("match_keywords") =>
        LET text == call.args[1]
        IN  /\ \A g \in Groups :
                  /\ g \in DOMAIN result.ret <=>
                        \E k \in 1..Len(KEYWORD_GROUPS[g]) : Occurs(KEYWORD_GROUPS[g][k], text)
                  /\ g \in DOMAIN result.ret =>
                        result.ret[g] =
                           SelectSeq(KEYWORD_GROUPS[g], LAMBDA w : Occurs(w, text))
            /\ DOMAIN result.ret = {} <=>
                  \A g \in Groups : \A k \in 1..Len(KEYWORD_GROUPS[g]) :
                     ~Occurs(KEYWORD_GROUPS[g][k], text)

\* a text with capital letters hits two groups
C9_Witness ==
    /\ Returned("match_keywords")
    /\ call.args[1] # lower(call.args[1])
    /\ DOMAIN result.ret = {"arts_culture", "funding_tax"}

\* C10: the status of the item pushed is a known status, never null or
\* empty: the source status if that is a known one, "Pending" otherwise.
C10_StatusKnown ==
    Exported =>
        LET m == matters[last.idx]
            known == /\ "MatterStatusName" \in DOMAIN m
                     /\ IsStr(m["MatterStatusName"])
                     /\ m["MatterStatusName"].str \in KNOWN_STATUSES
        IN  /\ IsStr(item.status)
            /\ item.status.str \in KNOWN_STATUSES
            /\ item.status.str # <<>>
            /\ known => item.status = m["MatterStatusName"]
            /\ ~known => item.status = JStr(<<"P", "e", "n", "d", "i", "n", "g">>)

\* a matter with an unknown status was pushed as Pending
C10_Witness ==
    /\ Exported
    /\ "MatterStatusName" \in DOMAIN matters[last.idx]
    /\ matters[last.idx]["MatterStatusName"] = JStr(<<"B", "o", "g", "u", "s">>)
    /\ item.status = JStr(<<"P", "e", "n", "d", "i", "n", "g">>)

=============================================================================
